---------------------------- MODULE Spec2Model ----------------------------
(***************************************************************************)
(* A left-bounded, single-tape Turing machine (src/machine.rs) driven      *)
(* through its public API: Machine::new, Machine::transition,              *)
(* Machine::undo_transition and Machine::acceptance, over a Septuple       *)
(* (src/machine/sep.rs) that was validated with Septuple::valid.           *)
(*                                                                         *)
(* Conventions.  A Rust Option<T> is a sequence of length 0 (None) or 1    *)
(* (Some).  Option<Movement> and Option<Acceptance> are the strings "R",   *)
(* "L", "Accepted", "Rejected", with "None" for Option::None.  A Vec is a  *)
(* sequence; Rust indexes from 0 and TLA+ from 1, so tape[i] of the code   *)
(* is tape[i + 1] here, and current_position keeps the code's value.       *)
(***************************************************************************)
EXTENDS Integers, Sequences, FiniteSets, TLC

(***************************************************************************)
(* Bounds of the model.                                                    *)
(***************************************************************************)
\* longest initial tape handed to Machine::new
MaxTape == 2
\* most transitions applied and not yet undone (length of the undo ledger)
MaxSteps == 6
\* longest tape the test's machine is run on to its verdict
MaxZeroOneTape == 6
\* most characters typed into the buffer of read_any_tape
MaxBuffer == 2
\* most calls made on each of two machines that share a Septuple, after
\* Machine::new
MaxCalls == 3

(***************************************************************************)
(* Septuples.                                                              *)
(***************************************************************************)
Tr(w, n, mv) == [write_symbol |-> w, next_state |-> n, move_to |-> mv]

\* the "zero n, one n" machine of the tests
ZeroNOneN ==
  [ alphabet       |-> {"0", "1", "X", "Y", "B"},
    blank_symbol   |-> "B",
    input_symbols  |-> {"0", "1"},
    states         |-> {"q0", "q1", "q2", "q3", "q4"},
    initial_state  |-> "q0",
    final_states   |-> {"q3"},
    transition_map |->
      ( <<"q0", "0">> :> Tr("X", "q1", "R") ) @@
      ( <<"q0", "B">> :> Tr("B", "q3", "R") ) @@
      ( <<"q0", "Y">> :> Tr("Y", "q4", "R") ) @@
      ( <<"q1", "0">> :> Tr("0", "q1", "R") ) @@
      ( <<"q1", "Y">> :> Tr("Y", "q1", "R") ) @@
      ( <<"q1", "1">> :> Tr("Y", "q2", "L") ) @@
      ( <<"q2", "0">> :> Tr("0", "q2", "L") ) @@
      ( <<"q2", "Y">> :> Tr("Y", "q2", "L") ) @@
      ( <<"q2", "X">> :> Tr("X", "q0", "R") ) @@
      ( <<"q4", "Y">> :> Tr("Y", "q4", "R") ) @@
      ( <<"q4", "B">> :> Tr("B", "q3", "R") ) ]

\* a three-state machine whose blank symbol is also an input symbol and that
\* uses transitions without movement
Sweeper ==
  [ alphabet       |-> {"0", "B"},
    blank_symbol   |-> "B",
    input_symbols  |-> {"0", "B"},
    states         |-> {"s0", "s1", "s2"},
    initial_state  |-> "s0",
    final_states   |-> {"s2"},
    transition_map |->
      ( <<"s0", "0">> :> Tr("B", "s1", "R") ) @@
      ( <<"s0", "B">> :> Tr("0", "s1", "None") ) @@
      ( <<"s1", "0">> :> Tr("0", "s0", "L") ) @@
      ( <<"s1", "B">> :> Tr("0", "s2", "L") ) ]

\* every transition a two-state machine over {"0", "B"} can hold
GenTransitions ==
  { Tr(w, n, mv) : w \in {"0", "B"}, n \in {"q0", "q1"}, mv \in {"R", "L", "None"} }

\* every partial transition map on these three keys
GenMaps ==
  UNION { [D -> GenTransitions] :
            D \in SUBSET { <<"q0", "0">>, <<"q0", "B">>, <<"q1", "B">> } }

\* the two-state machines over {"0", "B"}: any set of final states, any
\* transitions on the keys of GenMaps
GenSeptuples ==
  { [ alphabet       |-> {"0", "B"},
      blank_symbol   |-> "B",
      input_symbols  |-> {"0"},
      states         |-> {"q0", "q1"},
      initial_state  |-> "q0",
      final_states   |-> F,
      transition_map |-> tm ] : F \in SUBSET {"q0", "q1"}, tm \in GenMaps }

\* the transitions of the candidates below: a sound one, one that writes a
\* symbol outside the alphabet, one that goes to a state outside the states,
\* and one that does both
CandidateTransitions ==
  { Tr("0", "q1", "R"), Tr("Z", "q1", "L"), Tr("0", "q9", "None"), Tr("Z", "q9", "R") }

\* every partial transition map on a sound key, a key whose state is outside
\* the states and a key whose symbol is outside the alphabet
CandidateMaps ==
  UNION { [D -> CandidateTransitions] :
            D \in SUBSET { <<"q0", "0">>, <<"q9", "0">>, <<"q0", "Z">> } }

\* Septuples as a file may define them, before validation: each of the five
\* conditions of Septuple::valid holds in some and fails in others, alone
\* and together
Candidates ==
  { [ alphabet       |-> {"0", "B"},
      blank_symbol   |-> b,
      input_symbols  |-> i,
      states         |-> {"q0", "q1"},
      initial_state  |-> q,
      final_states   |-> F,
      transition_map |-> tm ] :
      b \in {"B", "Z"}, i \in {{"0"}, {"0", "Z"}}, q \in {"q0", "q9"},
      F \in {{}, {"q1"}, {"q1", "q9"}}, tm \in CandidateMaps }

\* the Definitions the model is run on
Definitions == {ZeroNOneN, Sweeper} \cup GenSeptuples \cup Candidates

\* the characters a caller may put on an initial tape: a character outside
\* every alphabet above ("Z") besides those of the alphabets
Chars == {"0", "1", "X", "Y", "B", "Z"}

\* the initial tapes handed to Machine::new for septuple s: over its alphabet
\* and one character outside it
OutsideChar(s) == CHOOSE c \in Chars : c \notin s.alphabet
RECURSIVE SeqsUpTo(_, _)
SeqsUpTo(S, n) ==
  IF n = 0 THEN { <<>> }
  ELSE LET shorter == SeqsUpTo(S, n - 1)
       IN shorter \cup { Append(t, c) : t \in {x \in shorter : Len(x) = n - 1}, c \in S }
Tapes(s) == SeqsUpTo(s.alphabet \cup {OutsideChar(s)}, MaxTape)

(***************************************************************************)
(* Septuple::valid.  The loop over transition_map.keys() visits the keys   *)
(* in the HashMap's iteration order, which the code does not fix: the      *)
(* error returned is that of whichever offending key comes first, so the   *)
(* operator yields the set of values the call can return.                  *)
(***************************************************************************)
\* the loop body without the test of the transition's next state
valid_key_NoNextCheck(s, key) ==
  LET state      == key[1]
      symbol     == key[2]
      transition == s.transition_map[key]
  IN IF state \notin s.states THEN "TransitionStateNotInStates"
     ELSE IF symbol \notin s.alphabet THEN "TransitionSymbolNotInAlphabet"
     ELSE IF transition.write_symbol \notin s.alphabet THEN "TransitionSymbolNotInAlphabet"
     ELSE "Ok"

\* the loop body without the test of the transition's write symbol
valid_key_NoWriteCheck(s, key) ==
  LET state      == key[1]
      symbol     == key[2]
      transition == s.transition_map[key]
  IN IF state \notin s.states THEN "TransitionStateNotInStates"
     ELSE IF symbol \notin s.alphabet THEN "TransitionSymbolNotInAlphabet"
     ELSE IF transition.next_state \notin s.states THEN "TransitionStateNotInStates"
     ELSE "Ok"

\* the body of the loop for one key: the first failing check, or "Ok"
valid_key(s, key) ==
  LET state      == key[1]
      symbol     == key[2]
      transition == s.transition_map[key]
  IN IF state \notin s.states THEN "TransitionStateNotInStates"
     ELSE IF symbol \notin s.alphabet THEN "TransitionSymbolNotInAlphabet"
     ELSE IF transition.next_state \notin s.states THEN "TransitionStateNotInStates"
     ELSE IF transition.write_symbol \notin s.alphabet THEN "TransitionSymbolNotInAlphabet"
     ELSE "Ok"

\* valid with the initial state tested before the input symbols
valid_InitFirst(s) ==
  IF s.blank_symbol \notin s.alphabet THEN {"BlankNotInAlph"}
  ELSE IF s.initial_state \notin s.states THEN {"InitNotInStates"}
  ELSE IF ~ (s.input_symbols \subseteq s.alphabet) THEN {"InputNotSubAlph"}
  ELSE IF ~ (s.final_states \subseteq s.states) THEN {"FinalNotSubStates"}
  ELSE LET errors == { valid_key(s, key) : key \in DOMAIN s.transition_map } \ {"Ok"}
       IN IF errors = {} THEN {"Ok"} ELSE errors

\* valid without the test of the blank symbol
valid_NoBlankCheck(s) ==
  IF ~ (s.input_symbols \subseteq s.alphabet) THEN {"InputNotSubAlph"}
  ELSE IF s.initial_state \notin s.states THEN {"InitNotInStates"}
  ELSE IF ~ (s.final_states \subseteq s.states) THEN {"FinalNotSubStates"}
  ELSE LET errors == { valid_key(s, key) : key \in DOMAIN s.transition_map } \ {"Ok"}
       IN IF errors = {} THEN {"Ok"} ELSE errors

\* Septuple::valid: the set of values a call can return
valid(s) ==
  IF s.blank_symbol \notin s.alphabet THEN {"BlankNotInAlph"}
  ELSE IF ~ (s.input_symbols \subseteq s.alphabet) THEN {"InputNotSubAlph"}
  ELSE IF s.initial_state \notin s.states THEN {"InitNotInStates"}
  ELSE IF ~ (s.final_states \subseteq s.states) THEN {"FinalNotSubStates"}
  ELSE LET errors == { valid_key(s, key) : key \in DOMAIN s.transition_map } \ {"Ok"}
       IN IF errors = {} THEN {"Ok"} ELSE errors

(***************************************************************************)
(* The machine.  A Machine is the record                                   *)
(*   [septuple, current_position, current_state, tape, undos]              *)
(* and an Undo the record [pop, movement, write, state].                   *)
(***************************************************************************)
\* new that tests the tape against the alphabet, not the input symbols
new_ChecksAlphabet(septuple, tape0) ==
  LET has_invalid_symbol ==
        \E i \in 1..Len(tape0) : tape0[i] \notin septuple.alphabet
      tape == IF tape0 = <<>> THEN <<septuple.blank_symbol>> ELSE tape0
  IN IF has_invalid_symbol
     THEN [ok |-> FALSE, machine |-> <<>>]
     ELSE [ok |-> TRUE,
           machine |-> << [ tape             |-> tape,
                            septuple         |-> septuple,
                            current_position |-> 0,
                            current_state    |-> septuple.initial_state,
                            undos            |-> <<>> ] >>]

\* new that pushes a blank cell on every tape, empty or not
new_AlwaysPads(septuple, tape0) ==
  LET has_invalid_symbol ==
        \E i \in 1..Len(tape0) : tape0[i] \notin septuple.input_symbols
  IN IF has_invalid_symbol
     THEN [ok |-> FALSE, machine |-> <<>>]
     ELSE [ok |-> TRUE,
           machine |-> << [ tape             |-> Append(tape0, septuple.blank_symbol),
                            septuple         |-> septuple,
                            current_position |-> 0,
                            current_state    |-> septuple.initial_state,
                            undos            |-> <<>> ] >>]

\* Machine::new: Ok(machine) is [ok |-> TRUE, machine |-> <<m>>], and
\* Err(InvalidSymbolError) is [ok |-> FALSE, machine |-> <<>>]
new(septuple, tape0) ==
  LET has_invalid_symbol ==
        \E i \in 1..Len(tape0) : tape0[i] \notin septuple.input_symbols
      tape == IF tape0 = <<>> THEN <<septuple.blank_symbol>> ELSE tape0
  IN IF has_invalid_symbol
     THEN [ok |-> FALSE, machine |-> <<>>]
     ELSE [ok |-> TRUE,
           machine |-> << [ tape             |-> tape,
                            septuple         |-> septuple,
                            current_position |-> 0,
                            current_state    |-> septuple.initial_state,
                            undos            |-> <<>> ] >>]

\* Machine::in_final_state
in_final_state(m) == m.current_state \in m.septuple.final_states

\* Machine::get_transition: Option<&Transition>
get_transition(m) ==
  LET current_symbol == m.tape[m.current_position + 1]
      transition_key == <<m.current_state, current_symbol>>
  IN IF transition_key \in DOMAIN m.septuple.transition_map
     THEN << m.septuple.transition_map[transition_key] >>
     ELSE <<>>

\* limited_left without the test of the position
limited_left_AnyLeft(m, t) ==
  IF t.move_to = "None" THEN FALSE
  ELSE IF t.move_to = "L" THEN TRUE
  ELSE FALSE

\* limited_left that takes the first cell to be at position 1
limited_left_FromOne(m, t) ==
  IF m.current_position = 1
  THEN IF t.move_to = "None" THEN FALSE
       ELSE IF t.move_to = "L" THEN TRUE
       ELSE FALSE
  ELSE FALSE

\* Machine::limited_left
limited_left(m, t) ==
  IF m.current_position = 0
  THEN IF t.move_to = "None" THEN FALSE
       ELSE IF t.move_to = "L" THEN TRUE
       ELSE FALSE
  ELSE FALSE

\* apply that writes the symbol after the head has moved
apply_WritesAfterMove(m, t) ==
  LET undo_write == m.tape[m.current_position + 1]
      undo_state == m.current_state
      grows      == t.move_to = "R" /\ m.current_position = Len(m.tape) - 1
      moved      == IF t.move_to = "R" THEN m.current_position + 1
                    ELSE IF t.move_to = "L" THEN m.current_position - 1
                    ELSE m.current_position
      longer     == IF grows THEN Append(m.tape, m.septuple.blank_symbol) ELSE m.tape
  IN [ machine |->
         [ m EXCEPT
             !.tape = [longer EXCEPT ![moved + 1] = t.write_symbol],
             !.current_state = t.next_state,
             !.current_position = moved ],
       undo |->
         [ pop      |-> grows,
           movement |-> IF t.move_to = "R" THEN "L"
                        ELSE IF t.move_to = "L" THEN "R"
                        ELSE "None",
           write    |-> undo_write,
           state    |-> undo_state ] ]

\* apply that compares the position with tape.len() where the code has
\* tape.len() - 1
apply_GrowsLate(m, t) ==
  LET undo_write == m.tape[m.current_position + 1]
      undo_state == m.current_state
      written    == [m.tape EXCEPT ![m.current_position + 1] = t.write_symbol]
      grows      == t.move_to = "R" /\ m.current_position = Len(written)
  IN [ machine |->
         [ m EXCEPT
             !.tape = IF grows THEN Append(written, m.septuple.blank_symbol)
                      ELSE written,
             !.current_state = t.next_state,
             !.current_position =
               IF t.move_to = "R" THEN m.current_position + 1
               ELSE IF t.move_to = "L" THEN m.current_position - 1
               ELSE m.current_position ],
       undo |->
         [ pop      |-> grows,
           movement |-> IF t.move_to = "R" THEN "L"
                        ELSE IF t.move_to = "L" THEN "R"
                        ELSE "None",
           write    |-> undo_write,
           state    |-> undo_state ] ]

\* apply that pushes a blank cell on every move to the right
apply_AlwaysGrows(m, t) ==
  LET undo_write == m.tape[m.current_position + 1]
      undo_state == m.current_state
      written    == [m.tape EXCEPT ![m.current_position + 1] = t.write_symbol]
      grows      == t.move_to = "R"
  IN [ machine |->
         [ m EXCEPT
             !.tape = IF grows THEN Append(written, m.septuple.blank_symbol)
                      ELSE written,
             !.current_state = t.next_state,
             !.current_position =
               IF t.move_to = "R" THEN m.current_position + 1
               ELSE IF t.move_to = "L" THEN m.current_position - 1
               ELSE m.current_position ],
       undo |->
         [ pop      |-> grows,
           movement |-> IF t.move_to = "R" THEN "L"
                        ELSE IF t.move_to = "L" THEN "R"
                        ELSE "None",
           write    |-> undo_write,
           state    |-> undo_state ] ]

\* apply whose Undo holds the movement applied, not its opposite
apply_RecordsMove(m, t) ==
  LET undo_write == m.tape[m.current_position + 1]
      undo_state == m.current_state
      written    == [m.tape EXCEPT ![m.current_position + 1] = t.write_symbol]
      grows      == t.move_to = "R" /\ m.current_position = Len(written) - 1
  IN [ machine |->
         [ m EXCEPT
             !.tape = IF grows THEN Append(written, m.septuple.blank_symbol)
                      ELSE written,
             !.current_state = t.next_state,
             !.current_position =
               IF t.move_to = "R" THEN m.current_position + 1
               ELSE IF t.move_to = "L" THEN m.current_position - 1
               ELSE m.current_position ],
       undo |->
         [ pop      |-> grows,
           movement |-> t.move_to,
           write    |-> undo_write,
           state    |-> undo_state ] ]

\* apply whose Undo never asks for the pushed cell to be popped
apply_ForgetsGrowth(m, t) ==
  LET undo_write == m.tape[m.current_position + 1]
      undo_state == m.current_state
      written    == [m.tape EXCEPT ![m.current_position + 1] = t.write_symbol]
      grows      == t.move_to = "R" /\ m.current_position = Len(written) - 1
  IN [ machine |->
         [ m EXCEPT
             !.tape = IF grows THEN Append(written, m.septuple.blank_symbol)
                      ELSE written,
             !.current_state = t.next_state,
             !.current_position =
               IF t.move_to = "R" THEN m.current_position + 1
               ELSE IF t.move_to = "L" THEN m.current_position - 1
               ELSE m.current_position ],
       undo |->
         [ pop      |-> FALSE,
           movement |-> IF t.move_to = "R" THEN "L"
                        ELSE IF t.move_to = "L" THEN "R"
                        ELSE "None",
           write    |-> undo_write,
           state    |-> undo_state ] ]

\* Machine::apply: the machine after the transition, and the Undo it returns
apply(m, t) ==
  LET undo_write == m.tape[m.current_position + 1]
      undo_state == m.current_state
      written    == [m.tape EXCEPT ![m.current_position + 1] = t.write_symbol]
      grows      == t.move_to = "R" /\ m.current_position = Len(written) - 1
      undo_pop   == grows
      undo_movement ==
        IF t.move_to = "R" THEN "L"
        ELSE IF t.move_to = "L" THEN "R"
        ELSE "None"
  IN [ machine |->
         [ m EXCEPT
             !.tape = IF grows THEN Append(written, m.septuple.blank_symbol)
                      ELSE written,
             !.current_state = t.next_state,
             !.current_position =
               IF t.move_to = "R" THEN m.current_position + 1
               ELSE IF t.move_to = "L" THEN m.current_position - 1
               ELSE m.current_position ],
       undo |->
         [ pop      |-> undo_pop,
           movement |-> undo_movement,
           write    |-> undo_write,
           state    |-> undo_state ] ]

\* transition without the final-state test
transition_IgnoresFinal(m) ==
  LET found == get_transition(m)
  IN IF found = <<>> THEN [machine |-> m, ret |-> "Rejected"]
     ELSE IF limited_left(m, found[1]) THEN [machine |-> m, ret |-> "Rejected"]
     ELSE LET applied == apply(m, found[1])
          IN [ machine |->
                 [ applied.machine EXCEPT
                     !.undos = Append(applied.machine.undos, applied.undo) ],
               ret |-> "None" ]

\* transition with the final-state test made after the transition lookup
transition_LookupFirst(m) ==
  LET found == get_transition(m)
  IN IF found = <<>> THEN [machine |-> m, ret |-> "Rejected"]
     ELSE IF in_final_state(m) THEN [machine |-> m, ret |-> "Accepted"]
     ELSE IF limited_left(m, found[1]) THEN [machine |-> m, ret |-> "Rejected"]
     ELSE LET applied == apply(m, found[1])
          IN [ machine |->
                 [ applied.machine EXCEPT
                     !.undos = Append(applied.machine.undos, applied.undo) ],
               ret |-> "None" ]

\* transition that writes the symbol and the state of a transition refused at
\* the left end of the tape before it returns Rejected
transition_WritesOnReject(m) ==
  IF in_final_state(m) THEN [machine |-> m, ret |-> "Accepted"]
  ELSE LET found == get_transition(m)
       IN IF found = <<>> THEN [machine |-> m, ret |-> "Rejected"]
          ELSE IF limited_left(m, found[1])
               THEN [ machine |->
                        [ m EXCEPT
                            !.tape[m.current_position + 1] = found[1].write_symbol,
                            !.current_state = found[1].next_state ],
                      ret |-> "Rejected" ]
          ELSE LET applied == apply(m, found[1])
               IN [ machine |->
                      [ applied.machine EXCEPT
                          !.undos = Append(applied.machine.undos, applied.undo) ],
                    ret |-> "None" ]

\* Machine::transition: the machine after the call and the value returned
transition(m) ==
  IF in_final_state(m) THEN [machine |-> m, ret |-> "Accepted"]
  ELSE LET found == get_transition(m)
       IN IF found = <<>> THEN [machine |-> m, ret |-> "Rejected"]
          ELSE IF limited_left(m, found[1]) THEN [machine |-> m, ret |-> "Rejected"]
          ELSE LET applied == apply(m, found[1])
               IN [ machine |->
                      [ applied.machine EXCEPT
                          !.undos = Append(applied.machine.undos, applied.undo) ],
                    ret |-> "None" ]

\* undo_transition that refuses to undo the oldest transition of the ledger
undo_transition_OffByOne(m) ==
  IF Len(m.undos) <= 1 THEN [machine |-> m, ret |-> "NoUndoError"]
  ELSE LET undo     == m.undos[Len(m.undos)]
           popped   == SubSeq(m.undos, 1, Len(m.undos) - 1)
           tape1    == IF undo.pop THEN SubSeq(m.tape, 1, Len(m.tape) - 1) ELSE m.tape
           position == IF undo.movement = "R" THEN m.current_position + 1
                       ELSE IF undo.movement = "L" THEN m.current_position - 1
                       ELSE m.current_position
       IN [ machine |->
              [ m EXCEPT
                  !.undos = popped,
                  !.tape = [tape1 EXCEPT ![position + 1] = undo.write],
                  !.current_position = position,
                  !.current_state = undo.state ],
            ret |-> "Ok" ]

\* undo_transition that reads the last Undo and leaves it on the ledger
undo_transition_KeepsLedger(m) ==
  IF m.undos = <<>> THEN [machine |-> m, ret |-> "NoUndoError"]
  ELSE LET undo     == m.undos[Len(m.undos)]
           tape1    == IF undo.pop THEN SubSeq(m.tape, 1, Len(m.tape) - 1) ELSE m.tape
           position == IF undo.movement = "R" THEN m.current_position + 1
                       ELSE IF undo.movement = "L" THEN m.current_position - 1
                       ELSE m.current_position
       IN [ machine |->
              [ m EXCEPT
                  !.tape = [tape1 EXCEPT ![position + 1] = undo.write],
                  !.current_position = position,
                  !.current_state = undo.state ],
            ret |-> "Ok" ]

\* undo_transition that refuses to leave a final state
undo_transition_NotFromFinal(m) ==
  IF m.undos = <<>> \/ in_final_state(m) THEN [machine |-> m, ret |-> "NoUndoError"]
  ELSE LET undo     == m.undos[Len(m.undos)]
           popped   == SubSeq(m.undos, 1, Len(m.undos) - 1)
           tape1    == IF undo.pop THEN SubSeq(m.tape, 1, Len(m.tape) - 1) ELSE m.tape
           position == IF undo.movement = "R" THEN m.current_position + 1
                       ELSE IF undo.movement = "L" THEN m.current_position - 1
                       ELSE m.current_position
       IN [ machine |->
              [ m EXCEPT
                  !.undos = popped,
                  !.tape = [tape1 EXCEPT ![position + 1] = undo.write],
                  !.current_position = position,
                  !.current_state = undo.state ],
            ret |-> "Ok" ]

\* undo_transition that restores the symbol before it moves the head back
undo_transition_WritesBeforeMove(m) ==
  IF m.undos = <<>> THEN [machine |-> m, ret |-> "NoUndoError"]
  ELSE LET undo     == m.undos[Len(m.undos)]
           popped   == SubSeq(m.undos, 1, Len(m.undos) - 1)
           restored == [m.tape EXCEPT ![m.current_position + 1] = undo.write]
           tape1    == IF undo.pop THEN SubSeq(restored, 1, Len(restored) - 1)
                       ELSE restored
           position == IF undo.movement = "R" THEN m.current_position + 1
                       ELSE IF undo.movement = "L" THEN m.current_position - 1
                       ELSE m.current_position
       IN [ machine |->
              [ m EXCEPT
                  !.undos = popped,
                  !.tape = tape1,
                  !.current_position = position,
                  !.current_state = undo.state ],
            ret |-> "Ok" ]

\* undo_transition without `if undo.pop { self.tape.pop(); }`
undo_transition_KeepsCell(m) ==
  IF m.undos = <<>> THEN [machine |-> m, ret |-> "NoUndoError"]
  ELSE LET undo     == m.undos[Len(m.undos)]
           popped   == SubSeq(m.undos, 1, Len(m.undos) - 1)
           position == IF undo.movement = "R" THEN m.current_position + 1
                       ELSE IF undo.movement = "L" THEN m.current_position - 1
                       ELSE m.current_position
       IN [ machine |->
              [ m EXCEPT
                  !.undos = popped,
                  !.tape = [m.tape EXCEPT ![position + 1] = undo.write],
                  !.current_position = position,
                  !.current_state = undo.state ],
            ret |-> "Ok" ]

\* Machine::undo_transition: the machine after the call and the value returned
undo_transition(m) ==
  IF m.undos = <<>> THEN [machine |-> m, ret |-> "NoUndoError"]
  ELSE LET undo     == m.undos[Len(m.undos)]
           popped   == SubSeq(m.undos, 1, Len(m.undos) - 1)
           tape1    == IF undo.pop THEN SubSeq(m.tape, 1, Len(m.tape) - 1) ELSE m.tape
           position == IF undo.movement = "R" THEN m.current_position + 1
                       ELSE IF undo.movement = "L" THEN m.current_position - 1
                       ELSE m.current_position
       IN [ machine |->
              [ m EXCEPT
                  !.undos = popped,
                  !.tape = [tape1 EXCEPT ![position + 1] = undo.write],
                  !.current_position = position,
                  !.current_state = undo.state ],
            ret |-> "Ok" ]

\* acceptance without the test of the left end of the tape
acceptance_NoLeftLimit(m) ==
  IF in_final_state(m) THEN "Accepted"
  ELSE LET found == get_transition(m)
       IN IF found = <<>> THEN "Rejected"
          ELSE "None"

\* acceptance with the transition looked up before the final-state test
acceptance_LookupFirst(m) ==
  LET found == get_transition(m)
  IN IF found = <<>> THEN "Rejected"
     ELSE IF in_final_state(m) THEN "Accepted"
     ELSE IF limited_left(m, found[1]) THEN "Rejected"
     ELSE "None"

\* Machine::acceptance
acceptance(m) ==
  IF in_final_state(m) THEN "Accepted"
  ELSE LET found == get_transition(m)
       IN IF found = <<>> THEN "Rejected"
          ELSE IF limited_left(m, found[1]) THEN "Rejected"
          ELSE "None"

(***************************************************************************)
(* The caller: it holds a validated Septuple, builds a Machine from it and *)
(* then calls the machine's operations in any order.                       *)
(*   sep      the Septuple, validated before any machine is built          *)
(*   machine  Option<Machine>: <<>> until Machine::new succeeds            *)
(*   op, arg  the last call made and, for "new", the tape handed to it     *)
(*   ret      the value that call returned                                 *)
(*   before   history: the (tape, position, state) held before each        *)
(*            transition that is still on the undo ledger, oldest first    *)
(*   grown    history: for each of those transitions, whether the tape was *)
(*            one cell longer after it than before it                      *)
(* The program of src/main.rs adds to these                                *)
(*   pc        where the program is: a statement of main or the state      *)
(*             function the loop of run_tui is in                          *)
(*   args_len  args.len(), the program's name included                     *)
(*   buffer    the String read_any_tape collects                           *)
(*   exit_code Option: the exit code of the process once it has ended      *)
(* and two machines built from one Septuple are held in                    *)
(*   engines   the two Option<Machine>                                     *)
(*   calls     history: for each of the two, the calls made on it          *)
(***************************************************************************)
VARIABLES sep, machine, op, arg, ret, before, grown,
          pc, args_len, buffer, exit_code, engines, calls

program == <<pc, args_len, buffer, exit_code>>

pair == <<engines, calls>>

vars == <<sep, machine, op, arg, ret, before, grown, program, pair>>

\* no program is running: a caller uses the library alone
NoProgram == pc = "none" /\ args_len = 0 /\ buffer = <<>> /\ exit_code = <<>>

\* no pair of machines is held
NoPair == engines = <<>> /\ calls = <<>>

\* the configuration of a machine: what the getters expose
Config(m) ==
  [ tape             |-> m.tape,
    current_position |-> m.current_position,
    current_state    |-> m.current_state ]

Init ==
  /\ sep \in { s \in Definitions : valid(s) = {"Ok"} }
  /\ machine = <<>>
  /\ op = "none"
  /\ arg = <<>>
  /\ ret = "none"
  /\ before = <<>>
  /\ grown = <<>>
  /\ NoProgram
  /\ NoPair

\* let mut tm = Machine::new(&septuple, tape).  Machine::new is a function of
\* its arguments alone, so a caller that was refused is not modelled as
\* calling it again: every tape is already tried as the first call.
New ==
  /\ machine = <<>>
  /\ op = "none"
  /\ \E tape0 \in Tapes(sep) :
       LET r == new(sep, tape0)
       IN /\ machine' = r.machine
          /\ op' = "new"
          /\ arg' = tape0
          /\ ret' = IF r.ok THEN "Ok" ELSE "InvalidSymbolError"
  /\ before' = <<>>
  /\ grown' = <<>>
  /\ UNCHANGED <<sep, program, pair>>

\* tm.transition()
Transition ==
  /\ machine # <<>>
  /\ LET r == transition(machine[1])
     IN /\ r.ret = "None" => Len(machine[1].undos) < MaxSteps
        /\ machine' = << r.machine >>
        /\ op' = "transition"
        /\ ret' = r.ret
        /\ before' = IF r.ret = "None" THEN Append(before, Config(machine[1]))
                     ELSE before
        /\ grown' = IF r.ret = "None"
                    THEN Append(grown, Len(r.machine.tape) = Len(machine[1].tape) + 1)
                    ELSE grown
  /\ UNCHANGED <<sep, arg, program, pair>>

\* tm.undo_transition()
UndoTransition ==
  /\ machine # <<>>
  /\ LET r == undo_transition(machine[1])
     IN /\ machine' = << r.machine >>
        /\ op' = "undo_transition"
        /\ ret' = r.ret
        /\ before' = IF r.ret = "Ok" THEN SubSeq(before, 1, Len(before) - 1)
                     ELSE before
        /\ grown' = IF r.ret = "Ok" THEN SubSeq(grown, 1, Len(grown) - 1)
                    ELSE grown
  /\ UNCHANGED <<sep, arg, program, pair>>

\* acceptance() written as a call of transition(), whose verdict it returns
Acceptance_ByTransition ==
  /\ machine # <<>>
  /\ op' = "acceptance"
  /\ machine' = << transition(machine[1]).machine >>
  /\ ret' = transition(machine[1]).ret
  /\ UNCHANGED <<sep, arg, before, grown, program, pair>>

\* tm.acceptance()
Acceptance ==
  /\ machine # <<>>
  /\ op' = "acceptance"
  /\ ret' = acceptance(machine[1])
  /\ UNCHANGED <<sep, machine, arg, before, grown, program, pair>>

Next == New \/ Transition \/ UndoTransition \/ Acceptance

Spec == Init /\ [][Next]_vars

(***************************************************************************)
(* Validation alone: main calls sep.valid() on whatever Septuple the file  *)
(* defined.  `ret` is the SepError returned, or "Ok".                      *)
(***************************************************************************)
ValidInit ==
  /\ sep \in Definitions
  /\ machine = <<>>
  /\ op = "none"
  /\ arg = <<>>
  /\ ret = "none"
  /\ before = <<>>
  /\ grown = <<>>
  /\ NoProgram
  /\ NoPair

\* sep.valid()
Validate ==
  /\ op = "none"
  /\ op' = "valid"
  /\ ret' \in valid(sep)
  /\ UNCHANGED <<sep, machine, arg, before, grown, program, pair>>

ValidNext == Validate

ValidSpec == ValidInit /\ [][ValidNext]_vars

(***************************************************************************)
(* The tests' run of the "zero n, one n" machine (test_zeron_onen):        *)
(*   let mut tm = Machine::new(&septuple, tape).unwrap();                  *)
(*   while tm.transition().is_none() {}                                    *)
(*   assert_eq!(tm.transition().unwrap(), verdict);                        *)
(* on every tape of input symbols up to MaxZeroOneTape cells.  The test    *)
(* runs these statements to the end, which is the fairness of ZeroOneSpec. *)
(***************************************************************************)
ZeroOneInit ==
  /\ sep = ZeroNOneN
  /\ machine = <<>>
  /\ op = "none"
  /\ arg = <<>>
  /\ ret = "none"
  /\ before = <<>>
  /\ grown = <<>>
  /\ NoProgram
  /\ NoPair

\* let mut tm = Machine::new(&septuple, tape).unwrap()
ZeroOneNew ==
  /\ op = "none"
  /\ \E tape0 \in SeqsUpTo(sep.input_symbols, MaxZeroOneTape) :
       /\ new(sep, tape0).ok
       /\ machine' = new(sep, tape0).machine
       /\ arg' = tape0
  /\ op' = "new"
  /\ ret' = "Ok"
  /\ UNCHANGED <<sep, before, grown, program, pair>>

\* one turn of `while tm.transition().is_none() {}`
ZeroOneRun ==
  /\ op = "new" \/ (op = "transition" /\ ret = "None")
  /\ LET r == transition(machine[1])
     IN /\ machine' = << r.machine >>
        /\ op' = "transition"
        /\ ret' = r.ret
        /\ before' = IF r.ret = "None" THEN Append(before, Config(machine[1]))
                     ELSE before
        /\ grown' = IF r.ret = "None"
                    THEN Append(grown, Len(r.machine.tape) = Len(machine[1].tape) + 1)
                    ELSE grown
  /\ UNCHANGED <<sep, arg, program, pair>>

\* the call inside assert_eq!(tm.transition().unwrap(), ...), after the loop
ZeroOneAssert ==
  /\ op = "transition" /\ ret # "None"
  /\ LET r == transition(machine[1])
     IN /\ machine' = << r.machine >>
        /\ op' = "asserted"
        /\ ret' = r.ret
  /\ UNCHANGED <<sep, arg, before, grown, program, pair>>

ZeroOneNext == ZeroOneNew \/ ZeroOneRun \/ ZeroOneAssert

ZeroOneSpec == ZeroOneInit /\ [][ZeroOneNext]_vars /\ WF_vars(ZeroOneNext)

(***************************************************************************)
(* The program (src/main.rs) and its screens (src/state.rs).  main checks  *)
(* its arguments, reads and parses the file, validates the Septuple and    *)
(* runs the loop of run_tui, which alternates between read_tape and        *)
(* process_machine.  `sep` is the Septuple the file defines, known to the  *)
(* program once from_json has returned it.  An expression followed by `?`  *)
(* may fail: main then returns the error, or prints it and calls exit(1);  *)
(* either way the process ends with exit code 1.  Events that the screens  *)
(* ignore, and polls that time out, change nothing and are left to         *)
(* stuttering.                                                             *)
(***************************************************************************)
\* the Septuples of the files the program is run on: those of the tests and
\* the candidates with at most the one transition on a sound key
ProgramDefinitions ==
  {ZeroNOneN, Sweeper} \cup
    { s \in Candidates : DOMAIN s.transition_map \subseteq { <<"q0", "0">> } }

\* the characters typed: input symbols, a symbol of the alphabets that is
\* not an input symbol of every Septuple, and one outside the alphabets
KeyChars == {"0", "1", "B", "Z"}

\* read_valid_tape that looks at the first character of the tape only
read_valid_tape_FirstOnly(tape, input_symbols) ==
  ~ (tape # <<>> /\ tape[1] \notin input_symbols)

\* read_valid_tape, one turn of its loop on the tape read_any_tape returned:
\* TRUE when it returns the tape, FALSE when it goes to bad_tape
read_valid_tape(tape, input_symbols) ==
  ~ (\E i \in 1..Len(tape) : tape[i] \notin input_symbols)

MainInit ==
  /\ sep \in ProgramDefinitions
  /\ machine = <<>>
  /\ op = "none"
  /\ arg = <<>>
  /\ ret = "none"
  /\ before = <<>>
  /\ grown = <<>>
  /\ pc = "main"
  /\ args_len \in 1..3
  /\ buffer = <<>>
  /\ exit_code = <<>>
  /\ NoPair

\* if args.len() != 2 { eprintln!(..); process::exit(1); }
CheckArgs ==
  /\ pc = "main"
  /\ IF args_len # 2
     THEN pc' = "exited" /\ exit_code' = <<1>>
     ELSE pc' = "read_to_string" /\ exit_code' = exit_code
  /\ UNCHANGED <<sep, machine, op, arg, ret, before, grown, args_len, buffer, pair>>

\* let file_contents = fs::read_to_string(file_path)?
ReadFile ==
  /\ pc = "read_to_string"
  /\ op' = "read_to_string"
  /\ \E r \in {"Ok", "Err"} :
       /\ ret' = r
       /\ IF r = "Ok"
          THEN pc' = "from_json" /\ exit_code' = exit_code
          ELSE pc' = "exited" /\ exit_code' = <<1>>
  /\ UNCHANGED <<sep, machine, arg, before, grown, args_len, buffer, pair>>

\* let sep = Septuple::from_json(&file_contents)?
FromJson ==
  /\ pc = "from_json"
  /\ op' = "from_json"
  /\ \E r \in {"Ok", "Err"} :
       /\ ret' = r
       /\ IF r = "Ok"
          THEN pc' = "valid" /\ exit_code' = exit_code
          ELSE pc' = "exited" /\ exit_code' = <<1>>
  /\ UNCHANGED <<sep, machine, arg, before, grown, args_len, buffer, pair>>

\* main that goes on to run_tui whatever sep.valid() returned
MainValid_GoesOn ==
  /\ pc = "valid"
  /\ op' = "valid"
  /\ ret' \in valid(sep)
  /\ pc' = "run_tui"
  /\ UNCHANGED <<sep, machine, arg, before, grown, args_len, buffer, exit_code, pair>>

\* if let Err(err) = sep.valid() { eprintln!(..); process::exit(1); }
MainValid ==
  /\ pc = "valid"
  /\ op' = "valid"
  /\ \E r \in valid(sep) :
       /\ ret' = r
       /\ IF r = "Ok"
          THEN pc' = "run_tui" /\ exit_code' = exit_code
          ELSE pc' = "exited" /\ exit_code' = <<1>>
  /\ UNCHANGED <<sep, machine, arg, before, grown, args_len, buffer, pair>>

\* run_tui up to its loop: the terminal is set up (which may fail), app is
\* built with machine: None, and the first state function is read_tape,
\* which enters read_any_tape with an empty buffer
RunTui ==
  /\ pc = "run_tui"
  /\ \E r \in {"Ok", "Err"} :
       IF r = "Ok"
       THEN pc' = "read_any_tape" /\ exit_code' = exit_code
       ELSE pc' = "exited" /\ exit_code' = <<1>>
  /\ machine' = <<>>
  /\ buffer' = <<>>
  /\ UNCHANGED <<sep, op, arg, ret, before, grown, args_len, pair>>

\* read_any_tape, KeyCode::Char(char) => buffer.push(char)
TapeChar ==
  /\ pc = "read_any_tape"
  /\ Len(buffer) < MaxBuffer
  /\ \E char \in KeyChars : buffer' = Append(buffer, char)
  /\ UNCHANGED <<sep, machine, op, arg, ret, before, grown, pc, args_len, exit_code, pair>>

\* read_any_tape, KeyCode::Backspace => buffer.pop(), which does nothing to
\* an empty String
TapeBackspace ==
  /\ pc = "read_any_tape"
  /\ buffer # <<>>
  /\ buffer' = SubSeq(buffer, 1, Len(buffer) - 1)
  /\ UNCHANGED <<sep, machine, op, arg, ret, before, grown, pc, args_len, exit_code, pair>>

\* read_tape that keeps the machine app already holds
TapeEnter_KeepsMachine ==
  /\ pc = "read_any_tape"
  /\ IF ~ read_valid_tape(buffer, sep.input_symbols)
     THEN /\ pc' = "bad_tape"
          /\ UNCHANGED <<machine, op, arg, ret, before, grown, exit_code>>
     ELSE LET r == new(sep, buffer)
          IN /\ op' = "new"
             /\ arg' = buffer
             /\ IF r.ok
                THEN /\ machine' = IF machine = <<>> THEN r.machine ELSE machine
                     /\ ret' = "Ok"
                     /\ before' = IF machine = <<>> THEN <<>> ELSE before
                     /\ grown' = IF machine = <<>> THEN <<>> ELSE grown
                     /\ pc' = "process_machine"
                     /\ exit_code' = exit_code
                ELSE /\ ret' = "InvalidSymbolError"
                     /\ pc' = "panicked"
                     /\ exit_code' = <<101>>
                     /\ UNCHANGED <<machine, before, grown>>
  /\ buffer' = <<>>
  /\ UNCHANGED <<sep, args_len, pair>>

\* read_any_tape, KeyCode::Enter => return Ok(L(buffer.chars().collect())),
\* back in read_valid_tape, which goes to bad_tape on a tape with a symbol
\* outside the input symbols and otherwise returns the tape to read_tape:
\*   app.machine = Some(Machine::new(app.sep, tape).unwrap())
\* An unwrap of an Err panics: the assignment is not made and the process
\* ends with the exit code of a panic.
TapeEnter ==
  /\ pc = "read_any_tape"
  /\ IF ~ read_valid_tape(buffer, sep.input_symbols)
     THEN /\ pc' = "bad_tape"
          /\ UNCHANGED <<machine, op, arg, ret, before, grown, exit_code>>
     ELSE LET r == new(sep, buffer)
          IN /\ op' = "new"
             /\ arg' = buffer
             /\ IF r.ok
                THEN /\ machine' = r.machine
                     /\ ret' = "Ok"
                     /\ before' = <<>>
                     /\ grown' = <<>>
                     /\ pc' = "process_machine"
                     /\ exit_code' = exit_code
                ELSE /\ ret' = "InvalidSymbolError"
                     /\ pc' = "panicked"
                     /\ exit_code' = <<101>>
                     /\ UNCHANGED <<machine, before, grown>>
  /\ buffer' = <<>>
  /\ UNCHANGED <<sep, args_len, pair>>

\* read_any_tape, KeyCode::Esc => return Ok(R(Quit)): read_tape returns None,
\* the loop of run_tui breaks, the terminal is restored (which may fail) and
\* main returns
TapeEsc ==
  /\ pc = "read_any_tape"
  /\ pc' = "exited"
  /\ \E r \in {"Ok", "Err"} : exit_code' = IF r = "Ok" THEN <<0>> ELSE <<1>>
  /\ buffer' = <<>>
  /\ UNCHANGED <<sep, machine, op, arg, ret, before, grown, args_len, pair>>

\* bad_tape: any key leaves it, and the loop of read_valid_tape calls
\* read_any_tape again
BadTapeKey ==
  /\ pc = "bad_tape"
  /\ pc' = "read_any_tape"
  /\ buffer' = <<>>
  /\ UNCHANGED <<sep, machine, op, arg, ret, before, grown, args_len, exit_code, pair>>

\* process_machine, KeyCode::Left => { let _ = machine.undo_transition(); }
MachineLeft ==
  /\ pc = "process_machine"
  /\ UndoTransition

\* process_machine, KeyCode::Right => { let _ = machine.transition(); }
MachineRight ==
  /\ pc = "process_machine"
  /\ Transition

\* process_machine, KeyCode::Esc => return Ok(Quit): the next state function
\* is read_tape; app.machine keeps the machine until read_tape replaces it
MachineEsc ==
  /\ pc = "process_machine"
  /\ pc' = "read_any_tape"
  /\ buffer' = <<>>
  /\ UNCHANGED <<sep, machine, op, arg, ret, before, grown, args_len, exit_code, pair>>

\* term.draw(..)?, event::poll(..)? or event::read()? fails in a screen:
\* run_tui returns the error and main calls exit(1)
IoError ==
  /\ pc \in {"read_any_tape", "bad_tape", "process_machine"}
  /\ pc' = "exited"
  /\ exit_code' = <<1>>
  /\ buffer' = <<>>
  /\ UNCHANGED <<sep, machine, op, arg, ret, before, grown, args_len, pair>>

MainNext ==
  \/ CheckArgs \/ ReadFile \/ FromJson \/ MainValid \/ RunTui
  \/ TapeChar \/ TapeBackspace \/ TapeEnter \/ TapeEsc
  \/ BadTapeKey
  \/ MachineLeft \/ MachineRight \/ MachineEsc
  \/ IoError

MainSpec == MainInit /\ [][MainNext]_vars

(***************************************************************************)
(* Two machines built from one Septuple.  A Machine holds a shared         *)
(* reference to the Septuple (septuple: &Septuple) and owns its tape and   *)
(* its undos; transition and undo_transition take &mut self, acceptance    *)
(* takes &self.  A caller holding two machines calls their operations in   *)
(* any order.  `calls` keeps, for each machine, the calls made on it.      *)
(***************************************************************************)
\* the Septuples shared
PairDefinitions == {ZeroNOneN, Sweeper}

\* the tapes handed to Machine::new: the empty one, each input symbol and a
\* character that is not one
PairTapes(s) ==
  { <<>> } \cup { <<c>> : c \in s.input_symbols \cup {OutsideChar(s)} }

\* a call, as `calls` keeps it: the tape is that of Machine::new
Call(o, t) == [op |-> o, tape |-> t]

PairInit ==
  /\ sep \in PairDefinitions
  /\ machine = <<>>
  /\ op = "none"
  /\ arg = <<>>
  /\ ret = "none"
  /\ before = <<>>
  /\ grown = <<>>
  /\ NoProgram
  /\ engines = << <<>>, <<>> >>
  /\ calls = << <<>>, <<>> >>

\* Machine::new(&sep, tape) for machine i
PairNew(i) ==
  /\ calls[i] = <<>>
  /\ \E tape0 \in PairTapes(sep) :
       LET r == new(sep, tape0)
       IN /\ engines' = [engines EXCEPT ![i] = r.machine]
          /\ calls' = [calls EXCEPT ![i] = Append(@, Call("new", tape0))]
          /\ op' = "new"
          /\ arg' = tape0
          /\ ret' = IF r.ok THEN "Ok" ELSE "InvalidSymbolError"
  /\ UNCHANGED <<sep, machine, before, grown, program>>

\* transition() on machine i that also writes, through a tape the two
\* machines would share, the cell under the head of the other machine
PairTransition_SharedTape(i) ==
  /\ engines[i] # <<>>
  /\ Len(calls[i]) <= MaxCalls
  /\ LET r == transition(engines[i][1])
         j == 3 - i
         p == engines[i][1].current_position
     IN /\ engines' =
             [engines EXCEPT
                ![i] = << r.machine >>,
                ![j] = IF engines[j] = <<>> THEN <<>>
                       ELSE << [ engines[j][1] EXCEPT
                                   !.tape[p + 1] = r.machine.tape[p + 1] ] >>]
        /\ calls' = [calls EXCEPT ![i] = Append(@, Call("transition", <<>>))]
        /\ op' = "transition"
        /\ ret' = r.ret
  /\ UNCHANGED <<sep, machine, arg, before, grown, program>>

\* engines[i].transition()
PairTransition(i) ==
  /\ engines[i] # <<>>
  /\ Len(calls[i]) <= MaxCalls
  /\ LET r == transition(engines[i][1])
     IN /\ engines' = [engines EXCEPT ![i] = << r.machine >>]
        /\ calls' = [calls EXCEPT ![i] = Append(@, Call("transition", <<>>))]
        /\ op' = "transition"
        /\ ret' = r.ret
  /\ UNCHANGED <<sep, machine, arg, before, grown, program>>

\* engines[i].undo_transition()
PairUndoTransition(i) ==
  /\ engines[i] # <<>>
  /\ Len(calls[i]) <= MaxCalls
  /\ LET r == undo_transition(engines[i][1])
     IN /\ engines' = [engines EXCEPT ![i] = << r.machine >>]
        /\ calls' = [calls EXCEPT ![i] = Append(@, Call("undo_transition", <<>>))]
        /\ op' = "undo_transition"
        /\ ret' = r.ret
  /\ UNCHANGED <<sep, machine, arg, before, grown, program>>

\* engines[i].acceptance()
PairAcceptance(i) ==
  /\ engines[i] # <<>>
  /\ Len(calls[i]) <= MaxCalls
  /\ calls' = [calls EXCEPT ![i] = Append(@, Call("acceptance", <<>>))]
  /\ op' = "acceptance"
  /\ ret' = acceptance(engines[i][1])
  /\ UNCHANGED <<sep, machine, arg, before, grown, program, engines>>

PairNext ==
  \E i \in 1..2 :
    PairNew(i) \/ PairTransition(i) \/ PairUndoTransition(i) \/ PairAcceptance(i)

PairSpec == PairInit /\ [][PairNext]_vars

(***************************************************************************)
(* Properties.                                                             *)
(***************************************************************************)
\* the verdicts of Acceptance; "None" is a machine still running
Verdicts == {"Accepted", "Rejected"}

\* n calls of undo_transition in a row: the machine after them, and whether
\* each of them returned Ok
RECURSIVE UndoN(_, _)
UndoN(m, n) ==
  IF n = 0 THEN [machine |-> m, ok |-> TRUE]
  ELSE LET r == undo_transition(m)
       IN IF r.ret = "Ok" THEN UndoN(r.machine, n - 1)
          ELSE [machine |-> r.machine, ok |-> FALSE]

\* C1: round trip.  `before` holds the configuration held before each
\* transition still on the ledger, so after n transitions applied from a
\* configuration c (each while running) its n-th entry from the end is c.
\* For every such n, n calls of undo_transition all return Ok and leave
\* exactly that tape, position and state, and the ledger as long as it was.
C1_RoundTrip ==
  machine # <<>> =>
    /\ Len(before) = Len(machine[1].undos)
    /\ \A n \in 0..Len(before) :
         LET r == UndoN(machine[1], n)
         IN /\ r.ok
            /\ Len(r.machine.undos) = Len(before) - n
            /\ n > 0 => Config(r.machine) = before[Len(before) - n + 1]
            /\ n = 0 => r.machine = machine[1]

\* C1 witness: three transitions are on the ledger, one of which grew the
\* tape and one of which changed a symbol, and an undo has just succeeded
C1_Witness ==
  /\ machine # <<>>
  /\ op = "undo_transition" /\ ret = "Ok"
  /\ Len(machine[1].undos) >= 3
  /\ \E i \in 1..Len(machine[1].undos) : machine[1].undos[i].pop
  /\ before[1].tape # SubSeq(machine[1].tape, 1, Len(before[1].tape))

\* the verdict the priority rule of the specification gives for a machine
RuleVerdict(m) ==
  LET key == <<m.current_state, m.tape[m.current_position + 1]>>
      map == m.septuple.transition_map
  IN CASE m.current_state \in m.septuple.final_states -> "Accepted"
       [] m.current_state \notin m.septuple.final_states
            /\ key \notin DOMAIN map -> "Rejected"
       [] m.current_state \notin m.septuple.final_states
            /\ key \in DOMAIN map
            /\ m.current_position = 0 /\ map[key].move_to = "L" -> "Rejected"
       [] OTHER -> "None"

\* C2: acceptance() returns the verdict of the priority rule: Accepted in a
\* final state, whatever the transition map holds; else Rejected without an
\* entry for (state, symbol under the head); else Rejected at position 0 when
\* the entry moves left; else running, in particular at position 0 when the
\* entry moves right or does not move.
C2_AcceptanceRule ==
  (machine # <<>> /\ op = "acceptance") =>
    LET m   == machine[1]
        key == <<m.current_state, m.tape[m.current_position + 1]>>
    IN /\ ret = RuleVerdict(m)
       /\ m.current_state \in sep.final_states => ret = "Accepted"
       /\ ( /\ m.current_state \notin sep.final_states
            /\ m.current_position = 0
            /\ key \in DOMAIN sep.transition_map
            /\ sep.transition_map[key].move_to \in {"R", "None"} ) => ret = "None"

\* C2 witness: acceptance() was called in a final state, at position 0, on a
\* symbol whose entry moves left
C2_Witness ==
  /\ machine # <<>> /\ op = "acceptance" /\ ret = "Accepted"
  /\ machine[1].current_position = 0
  /\ <<machine[1].current_state, machine[1].tape[1]>> \in DOMAIN sep.transition_map
  /\ sep.transition_map[<<machine[1].current_state, machine[1].tape[1]>>].move_to = "L"

\* C3: step() and acceptance() agree.  A call of transition() returns what
\* acceptance() returns on the configuration it is called in; when that is
\* None (running) it applies one transition, putting exactly one record on
\* the ledger, and otherwise it leaves the machine as it was.
C3_StepAgreesWithAcceptance ==
  [][ (machine # <<>> /\ op' = "transition") =>
        LET a == acceptance(machine[1])
        IN /\ ret' = a
           /\ a = "None" =>
                /\ Len(machine'[1].undos) = Len(machine[1].undos) + 1
                /\ SubSeq(machine'[1].undos, 1, Len(machine[1].undos)) = machine[1].undos
           /\ a # "None" => machine' = machine ]_vars

\* C3 witness: transition() has applied a transition to a machine that had
\* some on its ledger already, and the machine it left is not running
C3_Witness ==
  /\ machine # <<>> /\ op = "transition" /\ ret = "None"
  /\ Len(machine[1].undos) >= 2
  /\ acceptance(machine[1]) = "Rejected"

\* C4: terminal configurations are fixed points of step().  A call of
\* transition() that returns Accepted or Rejected leaves tape, position,
\* state and ledger as they were, and the next call of transition() on the
\* machine it leaves returns the same verdict and changes nothing either
\* (so does every further call, the machine being the same again).
C4_TerminalFixedPoint ==
  [][ (machine # <<>> /\ op' = "transition" /\ ret' \in Verdicts) =>
        /\ machine' = machine
        /\ transition(machine'[1]) = [machine |-> machine[1], ret |-> ret'] ]_vars

\* C4 witness: transition() has returned a verdict on a machine that applied
\* transitions before
C4_Witness ==
  /\ machine # <<>> /\ op = "transition" /\ ret \in Verdicts
  /\ Len(machine[1].undos) >= 2

\* the head is at position 0 on a symbol whose entry for the current state
\* moves left
LeftAtZero(m) ==
  /\ m.current_position = 0
  /\ <<m.current_state, m.tape[1]>> \in DOMAIN m.septuple.transition_map
  /\ m.septuple.transition_map[<<m.current_state, m.tape[1]>>].move_to = "L"

\* C5 as stated: wherever the head is at position 0 and the entry for
\* (current state, tape[0]) moves left, acceptance() returns Rejected and
\* transition() changes nothing.
C5_AsStated ==
  [][ (machine # <<>> /\ LeftAtZero(machine[1])) =>
        /\ op' = "acceptance" => ret' = "Rejected"
        /\ op' = "transition" => machine' = machine ]_vars

\* C5, amended: wherever the head is at position 0 and the entry for
\* (current state, tape[0]) moves left, acceptance() and transition() both
\* return Rejected if the current state is not final and Accepted if it is,
\* and transition() changes nothing in either case.
C5_LeftAtZero ==
  [][ (machine # <<>> /\ LeftAtZero(machine[1])) =>
        LET verdict == IF machine[1].current_state \in sep.final_states
                       THEN "Accepted" ELSE "Rejected"
        IN /\ op' = "acceptance" => ret' = verdict
           /\ op' = "transition" => (ret' = verdict /\ machine' = machine) ]_vars

\* C5 witness: transition() was refused at position 0 of a machine that got
\* back there after applying transitions, in a state that is not final
C5_Witness ==
  /\ machine # <<>> /\ LeftAtZero(machine[1])
  /\ machine[1].current_state \notin sep.final_states
  /\ op = "transition" /\ ret = "Rejected"
  /\ Len(machine[1].undos) >= 2

\* transition() has just applied a transition (it returned None)
Applied == machine # <<>> /\ op' = "transition" /\ ret' = "None"

\* the entry of the caller's Septuple for the state and the symbol under the
\* head of the machine
Entry == sep.transition_map[<<machine[1].current_state,
                              machine[1].tape[machine[1].current_position + 1]>>]

\* C6: when step() applies the entry t found for (state, symbol under the
\* head) at position p, the cell p of the tape then holds t's write symbol,
\* the state is t's next state, the position is p + 1 for a move to the
\* right, p - 1 for a move to the left and p without movement, and every
\* other cell of the tape held before the step keeps its symbol.
C6_StepEffect ==
  [][ Applied =>
        LET m == machine[1]
            n == machine'[1]
            p == m.current_position
        IN /\ <<m.current_state, m.tape[p + 1]>> \in DOMAIN sep.transition_map
           /\ Len(n.tape) >= Len(m.tape)
           /\ n.tape[p + 1] = Entry.write_symbol
           /\ n.current_state = Entry.next_state
           /\ n.current_position = CASE Entry.move_to = "R" -> p + 1
                                     [] Entry.move_to = "L" -> p - 1
                                     [] OTHER -> p
           /\ \A i \in 1..Len(m.tape) : i # p + 1 => n.tape[i] = m.tape[i] ]_vars

\* C6 witness: a transition moving left was applied away from the left end,
\* writing a symbol other than the one it read, on a tape of several cells
C6_Witness ==
  /\ machine # <<>> /\ op = "transition" /\ ret = "None"
  /\ Len(machine[1].undos) >= 2
  /\ machine[1].undos[Len(machine[1].undos)].movement = "R"
  /\ machine[1].current_position >= 1
  /\ machine[1].tape[machine[1].current_position + 2]
       # machine[1].undos[Len(machine[1].undos)].write

\* C7: tape growth.  An applied step makes the tape one cell longer, the new
\* last cell holding the blank symbol and the cells before it staying where
\* they were, exactly when its entry moves right and the head was on the
\* last cell; every other applied step keeps the length.  Undoing a step
\* that grew the tape (known from `grown`, noted when the step was applied)
\* removes the last cell, which is the one that step appended (it holds the
\* blank symbol and the head is on it), and leaves the tape as long as it
\* was before that step; undoing any other step keeps the length.
C7_TapeGrowth ==
  [][ /\ Applied =>
           LET m == machine[1]
               n == machine'[1]
               p == m.current_position
           IN IF Entry.move_to = "R" /\ p = Len(m.tape) - 1
              THEN /\ Len(n.tape) = Len(m.tape) + 1
                   /\ n.tape[Len(n.tape)] = sep.blank_symbol
                   /\ \A i \in 1..Len(m.tape) : i # p + 1 => n.tape[i] = m.tape[i]
              ELSE Len(n.tape) = Len(m.tape)
      /\ (machine # <<>> /\ op' = "undo_transition" /\ ret' = "Ok") =>
           LET m == machine[1]
               n == machine'[1]
           IN /\ Len(n.tape) = Len(before[Len(before)].tape)
              /\ IF grown[Len(grown)]
                 THEN /\ Len(n.tape) = Len(m.tape) - 1
                      /\ m.tape[Len(m.tape)] = sep.blank_symbol
                      /\ m.current_position = Len(m.tape) - 1
                      /\ \A i \in 1..Len(n.tape) :
                           i # n.current_position + 1 => n.tape[i] = m.tape[i]
                 ELSE Len(n.tape) = Len(m.tape) ]_vars

\* C7 witness: undo() has just succeeded and left, with transitions still on
\* the ledger, the head on the last cell of a machine whose next transition
\* moves right: the step it undid is that one, which grew the tape
C7_Witness ==
  /\ machine # <<>> /\ op = "undo_transition" /\ ret = "Ok"
  /\ Len(machine[1].undos) >= 2
  /\ machine[1].current_position = Len(machine[1].tape) - 1
  /\ acceptance(machine[1]) = "None"
  /\ get_transition(machine[1])[1].move_to = "R"
  /\ Len(machine[1].tape) > Len(before[1].tape)

\* C8: undo() fails with NoUndoError exactly when the ledger is empty, and a
\* failing undo() leaves tape, position, state and ledger unchanged.
C8_UndoFailure ==
  [][ (machine # <<>> /\ op' = "undo_transition") =>
        /\ ret' \in {"Ok", "NoUndoError"}
        /\ ret' = "NoUndoError" <=> machine[1].undos = <<>>
        /\ ret' = "NoUndoError" => machine' = machine ]_vars

\* C8 witness: undo() has failed on a freshly constructed machine
C8_Witness ==
  /\ machine # <<>> /\ op = "undo_transition" /\ ret = "NoUndoError"
  /\ machine = new(sep, arg).machine

C10_NewResult ==
  (op = "new" /\ ret = "Ok") =>
    /\ Len(machine) = 1
    /\ machine[1].current_position = 0
    /\ machine[1].current_state = sep.initial_state
    /\ machine[1].undos = <<>>
    /\ machine[1].tape = IF arg = <<>> THEN <<sep.blank_symbol>> ELSE arg
    /\ machine[1].septuple = sep

\* C10 witness: new has built a machine from the empty tape
C10_Witness ==
  /\ op = "new" /\ ret = "Ok" /\ arg = <<>>
  /\ machine # <<>>
  /\ machine[1].tape = <<sep.blank_symbol>>

\* C10, second case: new has built a machine from a tape of two cells
C10_WitnessGivenTape ==
  /\ op = "new" /\ ret = "Ok" /\ Len(arg) = 2
  /\ machine # <<>>
  /\ machine[1].tape = arg

\* C11: acceptance() is a pure query.  A call leaves tape, position, state
\* and ledger as they were, and a call that follows another call of
\* acceptance() returns the value that one returned: the value returned is
\* the one a further call on the machine it leaves returns.
C11_AcceptancePure ==
  [][ (machine # <<>> /\ op' = "acceptance") =>
        /\ machine' = machine
        /\ ret' = acceptance(machine'[1])
        /\ op = "acceptance" => ret' = ret ]_vars

\* C11 witness: acceptance() was called on a machine that has applied
\* transitions and is still running
C11_Witness ==
  /\ machine # <<>> /\ op = "acceptance" /\ ret = "None"
  /\ Len(machine[1].undos) >= 2

\* C12: fully undone means initial.  Whenever the ledger is empty, after any
\* calls of transition() and undo_transition(), the machine holds the tape
\* Machine::new built (the tape it was given, or one blank cell for the
\* empty tape), position 0 and the initial state.
C12_FullyUndoneIsInitial ==
  (machine # <<>> /\ machine[1].undos = <<>>) =>
    /\ machine[1].tape = IF arg = <<>> THEN <<sep.blank_symbol>> ELSE arg
    /\ machine[1].current_position = 0
    /\ machine[1].current_state = sep.initial_state

\* C12 witness: the last transition on the ledger of the test's machine has
\* just been undone
C12_Witness ==
  /\ machine # <<>> /\ op = "undo_transition" /\ ret = "Ok"
  /\ machine[1].undos = <<>>
  /\ sep = ZeroNOneN
  /\ arg = <<"0", "1">>

\* the five invariants of a Definition, as the specification lists them
Inv1(s) == s.blank_symbol \in s.alphabet
Inv2(s) == s.input_symbols \subseteq s.alphabet
Inv3(s) == s.initial_state \in s.states
Inv4(s) == s.final_states \subseteq s.states
Inv5(s) ==
  \A key \in DOMAIN s.transition_map :
    /\ key[1] \in s.states
    /\ s.transition_map[key].next_state \in s.states
    /\ key[2] \in s.alphabet
    /\ s.transition_map[key].write_symbol \in s.alphabet

\* C13: validate returns success if and only if the five invariants of the
\* Definition all hold, and it leaves the Definition as it was.
C13_ValidIffInvariants ==
  [][ op' = "valid" =>
        /\ sep' = sep
        /\ ret' = "Ok" <=>
             (Inv1(sep) /\ Inv2(sep) /\ Inv3(sep) /\ Inv4(sep) /\ Inv5(sep)) ]_vars

\* C13 witness: a Septuple was refused whose only fault is one transition
\* that writes a symbol outside the alphabet
C13_Witness ==
  /\ op = "valid" /\ ret = "TransitionSymbolNotInAlphabet"
  /\ Inv1(sep) /\ Inv2(sep) /\ Inv3(sep) /\ Inv4(sep)
  /\ \A key \in DOMAIN sep.transition_map :
       /\ key[1] \in sep.states /\ key[2] \in sep.alphabet
       /\ sep.transition_map[key].next_state \in sep.states
  /\ Cardinality(DOMAIN sep.transition_map) = 1

\* C13, the other side: a Septuple with transitions was accepted
C13_WitnessOk ==
  /\ op = "valid" /\ ret = "Ok"
  /\ sep.transition_map # <<>>
  /\ sep.final_states # {}

\* C14: validate tests the invariants in the order 1 to 5 and reports the
\* first one violated only: the kind returned is that of the lowest-numbered
\* violated invariant, the kinds of transition entries coming last; and a
\* kind of transition entry is returned for an entry that has that fault.
C14_FirstViolation ==
  op = "valid" =>
    /\ ~ Inv1(sep) => ret = "BlankNotInAlph"
    /\ (Inv1(sep) /\ ~ Inv2(sep)) => ret = "InputNotSubAlph"
    /\ (Inv1(sep) /\ Inv2(sep) /\ ~ Inv3(sep)) => ret = "InitNotInStates"
    /\ (Inv1(sep) /\ Inv2(sep) /\ Inv3(sep) /\ ~ Inv4(sep)) => ret = "FinalNotSubStates"
    /\ (Inv1(sep) /\ Inv2(sep) /\ Inv3(sep) /\ Inv4(sep) /\ ~ Inv5(sep)) =>
         ret \in {"TransitionStateNotInStates", "TransitionSymbolNotInAlphabet"}
    /\ ret = "TransitionStateNotInStates" =>
         \E key \in DOMAIN sep.transition_map :
           key[1] \notin sep.states \/ sep.transition_map[key].next_state \notin sep.states
    /\ ret = "TransitionSymbolNotInAlphabet" =>
         \E key \in DOMAIN sep.transition_map :
           key[2] \notin sep.alphabet \/ sep.transition_map[key].write_symbol \notin sep.alphabet

\* C14 witness: a Septuple that violates invariants 2, 3, 4 and 5 at once was
\* refused for its input symbols
C14_Witness ==
  /\ op = "valid" /\ ret = "InputNotSubAlph"
  /\ ~ Inv3(sep) /\ ~ Inv4(sep) /\ ~ Inv5(sep)

\* the tape is not empty and the head is on one of its cells
InRange(m) ==
  /\ Len(m.tape) >= 1
  /\ m.current_position >= 0
  /\ m.current_position < Len(m.tape)

\* the indexes a call of transition() on m uses are cells of the tape, and
\* the position it leaves is not below 0: get_transition and apply index the
\* cell under the head, and apply subtracts 1 from the position on a move
\* to the left
StepInRange(m) ==
  in_final_state(m) \/
    /\ InRange(m)
    /\ acceptance(m) = "None" =>
         (get_transition(m)[1].move_to = "L" => m.current_position >= 1)

\* the index a call of undo_transition() on m uses is a cell of the tape and
\* the position it leaves is not below 0: it pops the tape if the record says
\* so, moves the head back, then writes the cell under the head
UndoInRange(m) ==
  m.undos = <<>> \/
    LET undo     == m.undos[Len(m.undos)]
        length   == IF undo.pop THEN Len(m.tape) - 1 ELSE Len(m.tape)
        position == IF undo.movement = "R" THEN m.current_position + 1
                    ELSE IF undo.movement = "L" THEN m.current_position - 1
                    ELSE m.current_position
    IN /\ Len(m.tape) >= 1
       /\ position >= 0
       /\ position < length

\* C15: for a machine built from a validated Definition, after any calls of
\* transition() and undo_transition(), failing or not, the tape is not empty
\* and 0 <= position < length of the tape; and no call of either from there
\* indexes the tape out of its range or takes the position below 0.
C15_HeadInRange ==
  machine # <<>> =>
    /\ InRange(machine[1])
    /\ StepInRange(machine[1])
    /\ UndoInRange(machine[1])

\* C15 witness: a transition has moved the head left onto cell 0, from where
\* the next transition would move left again and is refused
C15_Witness ==
  /\ machine # <<>> /\ op = "transition" /\ ret = "None"
  /\ machine[1].current_position = 0
  /\ machine[1].undos[Len(machine[1].undos)].movement = "R"
  /\ LeftAtZero(machine[1])
  /\ ~ in_final_state(machine[1])

\* C16: for a machine built from a validated Definition, the current state
\* is one of the Definition's states in every reachable configuration, after
\* any calls of transition() and undo_transition().
C16_StateInStates ==
  machine # <<>> => machine[1].current_state \in sep.states

\* C16 witness: a transition has taken the machine to a state other than
\* the initial one, and an undo has taken it back from a third
C16_Witness ==
  /\ machine # <<>> /\ op = "undo_transition" /\ ret = "Ok"
  /\ machine[1].current_state # sep.initial_state
  /\ machine[1].current_state \in sep.states
  /\ acceptance(machine[1]) = "None"
  /\ transition(machine[1]).machine.current_state
       \notin {sep.initial_state, machine[1].current_state}

\* t is n zeros followed by n ones, for some n >= 0
IsZeroNOneN(t) ==
  /\ Len(t) % 2 = 0
  /\ \A i \in 1..Len(t) : t[i] = IF 2 * i <= Len(t) THEN "0" ELSE "1"

\* C17: the test's machine reaches a verdict on every tape over {0, 1} after
\* finitely many calls of transition(), and the verdict, the one that ends
\* the loop and the one the assertion reads, is Accepted exactly when the
\* tape is n zeros followed by n ones (n >= 0) and Rejected otherwise.
C17_ZeroOneVerdict ==
  /\ <>(op = "asserted")
  /\ []( (op = "asserted" \/ (op = "transition" /\ ret # "None")) =>
           /\ ret \in Verdicts
           /\ ret = "Accepted" <=> IsZeroNOneN(arg) )

\* C17 witness: the tape 0,0,0,1,1,1 was accepted
C17_Witness ==
  /\ op = "asserted" /\ ret = "Accepted"
  /\ arg = <<"0", "0", "0", "1", "1", "1">>

\* C17, further cases: the tape 1,0 and a tape of unequal counts rejected
C17_WitnessRejected ==
  /\ op = "asserted" /\ ret = "Rejected"
  /\ arg \in { <<"1", "0">>, <<"0", "0", "1">> }
  /\ Len(machine[1].undos) >= 1

\* n times the symbol c
Repeat(c, n) == [i \in 1..n |-> c]

\* C18: run on n zeros followed by n ones (n >= 1) until transition() returns
\* Accepted, the test's machine leaves the tape n X, then n Y, then exactly
\* two B.
C18_ZeroOneFinalTape ==
  (machine # <<>> /\ op \in {"transition", "asserted"} /\ ret = "Accepted" /\ arg # <<>>) =>
    machine[1].tape =
      Repeat("X", Len(arg) \div 2) \o Repeat("Y", Len(arg) \div 2) \o <<"B", "B">>

\* C18 witness: the run on 0,0,1,1 has ended with the tape X,X,Y,Y,B,B
C18_Witness ==
  /\ machine # <<>> /\ op = "transition" /\ ret = "Accepted"
  /\ arg = <<"0", "0", "1", "1">>
  /\ machine[1].tape = <<"X", "X", "Y", "Y", "B", "B">>

\* acceptance() is the first call made on a machine Machine::new has just
\* built
FirstAcceptance == op = "new" /\ ret = "Ok" /\ op' = "acceptance"

\* C19 as stated: Running is the initial state: acceptance() on a freshly
\* constructed machine reports running (None), for every validated
\* Definition and every valid initial tape.
C19_AsStated ==
  [][ FirstAcceptance => ret' = "None" ]_vars

\* C19, amended: acceptance() on a freshly constructed machine reports
\* Accepted when the initial state is final; otherwise Rejected when the
\* Definition has no entry for (initial state, first cell of the tape) or
\* that entry moves left; and running (None) in the remaining case only.
C19_InitialVerdict ==
  [][ FirstAcceptance =>
        LET first == IF arg = <<>> THEN sep.blank_symbol ELSE arg[1]
            key   == <<sep.initial_state, first>>
        IN ret' = IF sep.initial_state \in sep.final_states THEN "Accepted"
                  ELSE IF key \notin DOMAIN sep.transition_map THEN "Rejected"
                  ELSE IF sep.transition_map[key].move_to = "L" THEN "Rejected"
                  ELSE "None" ]_vars

\* C19 witness: acceptance() has reported the test's machine rejected on the
\* tape 1,0 before any transition was applied
C19_Witness ==
  /\ machine # <<>> /\ op = "acceptance" /\ ret = "Rejected"
  /\ machine[1].undos = <<>>
  /\ sep = ZeroNOneN
  /\ arg = <<"1", "0">>

\* C19, the remaining case: a machine just built is running
C19_WitnessRunning ==
  /\ machine # <<>> /\ op = "acceptance" /\ ret = "None"
  /\ machine[1].undos = <<>>

C20_UndoLeavesVerdict ==
  /\ machine # <<>> /\ op = "undo_transition" /\ ret = "Ok"
  /\ acceptance(machine[1]) \in Verdicts

\* C21: undo ledger discipline.  A transition() that applies a transition
\* appends one Undo and keeps the earlier ones; a transition() that returns
\* a verdict and an undo_transition() that fails keep the ledger; an
\* undo_transition() that succeeds removes the last Undo and no other.  So
\* the ledger is as long as the transitions applied and not undone (the
\* length of `before`), and from a ledger of k records k calls of
\* undo_transition() in a row return Ok and the next one NoUndoError.
C21_LedgerDiscipline ==
  [][ machine # <<>> =>
        LET m == machine[1]
            n == machine'[1]
            k == Len(n.undos)
        IN /\ (op' = "transition" /\ ret' = "None") =>
                /\ Len(n.undos) = Len(m.undos) + 1
                /\ SubSeq(n.undos, 1, Len(m.undos)) = m.undos
           /\ (op' = "transition" /\ ret' \in Verdicts) => n.undos = m.undos
           /\ (op' = "undo_transition" /\ ret' = "NoUndoError") => n.undos = m.undos
           /\ (op' = "undo_transition" /\ ret' = "Ok") =>
                /\ m.undos # <<>>
                /\ n.undos = SubSeq(m.undos, 1, Len(m.undos) - 1)
           /\ k = Len(before')
           /\ \A j \in 0..k :
                /\ UndoN(n, j).ok
                /\ Len(UndoN(n, j).machine.undos) = k - j
           /\ undo_transition(UndoN(n, k).machine).ret = "NoUndoError" ]_vars

\* C21 witness: transition() has returned a verdict on a machine whose
\* ledger holds three Undos, for the three transitions applied and not undone
C21_Witness ==
  /\ machine # <<>> /\ op = "transition" /\ ret \in Verdicts
  /\ Len(machine[1].undos) = 3
  /\ Len(before) = 3

\* the opposite of a movement
Opposite(mv) == IF mv = "R" THEN "L" ELSE IF mv = "L" THEN "R" ELSE "None"

\* C24: the Undo pushed by an applied transition holds the symbol that was
\* under the head before the write, the state before the transition, the
\* opposite of the movement applied (none for no movement) and a pop flag
\* that is true exactly when the transition pushed a blank cell; so every
\* Undo of the ledger whose pop flag is true holds the movement L.
C24_UndoRecord ==
  [][ Applied =>
        LET m    == machine[1]
            n    == machine'[1]
            undo == n.undos[Len(n.undos)]
        IN /\ undo.write = m.tape[m.current_position + 1]
           /\ undo.state = m.current_state
           /\ undo.movement = Opposite(Entry.move_to)
           /\ undo.pop <=> Len(n.tape) = Len(m.tape) + 1
           /\ undo.pop => n.tape = Append([m.tape EXCEPT ![m.current_position + 1] =
                                             Entry.write_symbol], sep.blank_symbol)
           /\ \A i \in 1..Len(n.undos) : n.undos[i].pop => n.undos[i].movement = "L" ]_vars

\* C24 witness: the ledger holds an Undo for a transition that pushed a
\* cell, one for a move to the left and one for a transition without
\* movement, and the last one changed the symbol and the state
C24_Witness ==
  /\ machine # <<>> /\ op = "transition" /\ ret = "None"
  /\ \E i, j, k \in 1..Len(machine[1].undos) :
       /\ machine[1].undos[i].pop
       /\ machine[1].undos[j].movement = "R"
       /\ machine[1].undos[k].movement = "None"
  /\ LET undo == machine[1].undos[Len(machine[1].undos)]
         p    == before[Len(before)].current_position
     IN /\ undo.state # machine[1].current_state
        /\ undo.write # machine[1].tape[p + 1]

\* C27: after every undo_transition() that returns Ok the machine is
\* running: acceptance() returns None on the configuration it leaves, never
\* Accepted or Rejected.
C27_UndoLeavesRunning ==
  (machine # <<>> /\ op = "undo_transition" /\ ret = "Ok") =>
    /\ acceptance(machine[1]) = "None"
    /\ transition(machine[1]).ret = "None"

\* C27 witness: undo_transition() has succeeded on a machine that had
\* reached a verdict, in a Septuple whose final states have transitions
C27_Witness ==
  /\ machine # <<>> /\ op = "undo_transition" /\ ret = "Ok"
  /\ acceptance(transition(machine[1]).machine) \in Verdicts
  /\ \E key \in DOMAIN sep.transition_map : key[1] \in sep.final_states

\* the tape Machine::new built from the caller's tape
PostConstructTape == new(sep, arg).machine[1].tape

\* C28: tape length accounting.  The tape is as long as the tape
\* Machine::new built plus the number of Undos on the ledger whose pop flag
\* is true; so it is never shorter than that tape, whose cells
\* undo_transition() never removes.
C28_TapeLength ==
  machine # <<>> =>
    LET m == machine[1]
    IN /\ Len(m.tape) = Len(PostConstructTape)
                         + Cardinality({ i \in 1..Len(m.undos) : m.undos[i].pop })
       /\ Len(m.tape) >= Len(PostConstructTape)
       /\ LET r == undo_transition(m)
          IN Len(r.machine.tape) >= Len(PostConstructTape)

\* C28 witness: two transitions on the ledger pushed a cell and another did
\* not, after an undo_transition() that popped a cell
C28_Witness ==
  /\ machine # <<>> /\ op = "transition" /\ ret = "None"
  /\ Cardinality({ i \in 1..Len(machine[1].undos) : machine[1].undos[i].pop }) = 2
  /\ \E i \in 1..Len(machine[1].undos) : ~ machine[1].undos[i].pop
  /\ Len(machine[1].tape) = Len(PostConstructTape) + 2

\* C29: every cell of the tape of a machine built from a validated Septuple
\* holds a symbol of the alphabet, after any calls of transition() and
\* undo_transition().
C29_CellsInAlphabet ==
  machine # <<>> =>
    \A i \in 1..Len(machine[1].tape) : machine[1].tape[i] \in sep.alphabet

\* C29 witness: after transitions and an undo the tape holds a symbol that
\* is not an input symbol and a cell that transition() pushed
C29_Witness ==
  /\ machine # <<>> /\ op = "undo_transition" /\ ret = "Ok"
  /\ \E i \in 1..Len(machine[1].tape) : machine[1].tape[i] \notin sep.input_symbols
  /\ Len(machine[1].tape) > Len(PostConstructTape)
  /\ Len(machine[1].undos) >= 2

\* the process has ended with exit code 1 and no machine was ever built
ExitedWithoutMachine == pc' = "exited" /\ exit_code' = <<1>> /\ machine' = <<>>

\* C23: the program never builds a machine from a Septuple it has not
\* validated.  The first Machine::new comes after sep.valid() returned Ok,
\* every machine is built from a Septuple on which valid() returns Ok, and
\* when args.len() is not 2, the file cannot be read or parsed, or valid()
\* returns an error, the process ends with exit code 1 and no machine built.
C23_ValidatedBeforeNew ==
  [][ /\ (machine = <<>> /\ op' = "new") =>
           /\ op = "valid" /\ ret = "Ok"
           /\ valid(sep) = {"Ok"}
      /\ machine' # <<>> => valid(sep') = {"Ok"}
      /\ (pc = "main" /\ args_len # 2) => ExitedWithoutMachine
      /\ (op' \in {"read_to_string", "from_json"} /\ ret' = "Err") => ExitedWithoutMachine
      /\ (op' = "valid" /\ ret' # "Ok") => ExitedWithoutMachine ]_vars

\* C23 witness: valid() has returned an error for a transition of the file's
\* Septuple and the process has ended with exit code 1, no machine built
C23_Witness ==
  /\ op = "valid" /\ ret = "TransitionSymbolNotInAlphabet"
  /\ pc = "exited" /\ exit_code = <<1>>
  /\ machine = <<>>

\* C23, the other case: a machine was built and run after valid() returned Ok
C23_WitnessBuilt ==
  /\ machine # <<>> /\ op = "transition"
  /\ valid(sep) = {"Ok"}

\* the tape holds a symbol that is not an input symbol
BadTape(tape) == \E i \in 1..Len(tape) : tape[i] \notin sep.input_symbols

\* C25: the screens build a machine from a valid tape only.  Enter on a tape
\* of input symbols builds the machine, Machine::new returning Ok; Enter on
\* a tape with any other symbol leads to bad_tape and builds nothing; every
\* key in bad_tape leads back to the tape input and builds nothing; so the
\* unwrap of Machine::new in read_tape never meets InvalidSymbolError.
C25_ValidTapeOnly ==
  [][ /\ pc' # "panicked"
      /\ ret' # "InvalidSymbolError"
      /\ (pc = "read_any_tape" /\ pc' = "process_machine") =>
           /\ ~ BadTape(buffer)
           /\ op' = "new" /\ ret' = "Ok" /\ arg' = buffer
           /\ machine' = new(sep, buffer).machine
      /\ (pc = "read_any_tape" /\ BadTape(buffer) /\ pc' \notin {"read_any_tape", "exited"}) =>
           /\ pc' = "bad_tape"
           /\ UNCHANGED <<machine, op, arg, ret>>
      /\ pc' = "bad_tape" => BadTape(buffer)
      /\ pc = "bad_tape" =>
           /\ pc' \in {"read_any_tape", "exited"}
           /\ pc' = "exited" => exit_code' = <<1>>
           /\ UNCHANGED <<machine, op, arg, ret>> ]_vars

\* C25 witness: a tape with a symbol outside the input symbols was entered
\* while app held the machine of an earlier tape; the program is in bad_tape
\* and that machine, with its ledger, is untouched
C25_Witness ==
  /\ pc = "bad_tape"
  /\ machine # <<>> /\ machine[1].undos # <<>>
  /\ op = "transition"
  /\ sep = ZeroNOneN

\* Enter builds a machine in place of the one that Esc left in app
Reentered == pc = "read_any_tape" /\ machine # <<>> /\ pc' = "process_machine"

\* C26 as stated: after Esc in process_machine and the entry of a new valid
\* tape, the machine in use has position 0, the initial state, an empty
\* ledger and the newly entered tape, whatever was applied to the previous
\* machine.
C26_AsStated ==
  [][ Reentered =>
        /\ machine'[1].current_position = 0
        /\ machine'[1].current_state = sep.initial_state
        /\ machine'[1].undos = <<>>
        /\ machine'[1].tape = buffer ]_vars

\* C26, amended: after Esc in process_machine and the entry of a new valid
\* tape, the machine in use has position 0, the initial state, an empty
\* ledger and, as its tape, the newly entered tape or the single blank
\* symbol when the entered tape is empty, whatever was applied to the
\* previous machine.
C26_NothingCarriedOver ==
  [][ Reentered =>
        /\ machine'[1].current_position = 0
        /\ machine'[1].current_state = sep.initial_state
        /\ machine'[1].undos = <<>>
        /\ machine'[1].tape = IF buffer = <<>> THEN <<sep.blank_symbol>> ELSE buffer
        /\ before' = <<>> ]_vars

\* C26 witness: Esc has left in app a machine that transitions and an undo
\* had changed, and another tape, a valid one, has been typed at the tape
\* input: Enter builds the machine in use from it
C26_Witness ==
  /\ pc = "read_any_tape"
  /\ machine # <<>> /\ op = "undo_transition" /\ ret = "Ok"
  /\ Len(machine[1].undos) >= 2
  /\ machine[1].tape # arg
  /\ buffer # <<>> /\ buffer # arg /\ ~ BadTape(buffer)

\* the calls cs made alone, in their order, on a machine of Septuple s: the
\* Option<Machine> they leave and the value the last of them returned
RECURSIVE Alone(_, _)
Alone(s, cs) ==
  IF cs = <<>> THEN [machine |-> <<>>, ret |-> "none"]
  ELSE LET earlier == Alone(s, SubSeq(cs, 1, Len(cs) - 1)).machine
           call    == cs[Len(cs)]
       IN CASE call.op = "new" ->
                 [ machine |-> new(s, call.tape).machine,
                   ret     |-> IF new(s, call.tape).ok THEN "Ok" ELSE "InvalidSymbolError" ]
            [] call.op = "transition" ->
                 [ machine |-> << transition(earlier[1]).machine >>,
                   ret     |-> transition(earlier[1]).ret ]
            [] call.op = "undo_transition" ->
                 [ machine |-> << undo_transition(earlier[1]).machine >>,
                   ret     |-> undo_transition(earlier[1]).ret ]
            [] call.op = "acceptance" ->
                 [ machine |-> earlier,
                   ret     |-> acceptance(earlier[1]) ]

\* C22: machines built from the same Septuple are independent and never
\* change it.  Whatever the order of the calls on two machines, a call on
\* one leaves the Septuple and the other machine as they were, returns what
\* it returns when the calls of its machine are made alone, and each machine
\* is the one its own calls made alone leave.
C22_Independent ==
  [][ \A i \in 1..2 :
        calls'[i] # calls[i] =>
          /\ sep' = sep
          /\ \A j \in (1..2) \ {i} : engines'[j] = engines[j] /\ calls'[j] = calls[j]
          /\ ret' = Alone(sep, calls'[i]).ret
          /\ \A j \in 1..2 :
               /\ engines'[j] = Alone(sep, calls'[j]).machine
               /\ engines'[j] # <<>> => engines'[j][1].septuple = sep ]_vars

\* C22 witness: the two machines, built on different tapes, have each taken
\* calls after Machine::new; one has a transition on its ledger and the
\* other, after a transition and its undo, has none
C22_Witness ==
  /\ engines[1] # <<>> /\ engines[2] # <<>>
  /\ calls[1][1].tape # calls[2][1].tape
  /\ Len(calls[1]) >= 3 /\ Len(calls[2]) >= 3
  /\ engines[1][1].undos # <<>>
  /\ engines[2][1].undos = <<>>
  /\ calls[2][2].op = "transition" /\ calls[2][3].op = "undo_transition"
  /\ op = "undo_transition" /\ ret = "Ok"

=============================================================================
